---------------------------- MODULE Spec2Model ----------------------------
(***************************************************************************)
(* A model of scripts/incremental_train.py (class IncrementalTrainer): the *)
(* version store (in-memory list and models/versions/versions.json), the   *)
(* dataset fingerprint and statistics, the strategy selector and the       *)
(* training/version orchestrator, together with scripts/nuke.py, which     *)
(* deletes the models directory the store lives in.                        *)
(*                                                                         *)
(* Representation.                                                         *)
(*   - A file's content is a sequence of one-character strings.            *)
(*   - A label path labels/<dir>/<name>.txt is the pair <<dir, name>>.     *)
(*   - A dataset is a function from the label paths that exist to their    *)
(*     contents.                                                           *)
(*   - The version identifier f"v{n}" is the pair <<"v", n>>; Python's     *)
(*     None is the empty tuple.                                            *)
(*   - hashlib.md5(...).hexdigest()[:8] is modelled by the byte string fed *)
(*     to it: the digest is taken to be collision free on the bounded      *)
(*     inputs, so two fingerprints are equal exactly when the hashed byte  *)
(*     strings are.                                                        *)
(*   - The timestamp, total_images and class_distribution fields of a      *)
(*     record are not modelled; no operation reads them back.  The label   *)
(*     files explored hold lines that start with a class id, so the        *)
(*     int(...) of get_dataset_stats does not raise on them.               *)
(***************************************************************************)
EXTENDS Integers, Sequences, FiniteSets, TLC

VARIABLES
    versions,        \* self.versions: the in-memory list of version records
    manifest,        \* models/versions/versions.json on disk
    dataset,         \* the label files under <dataset_dir>/labels
    version_dirs,    \* the n for which models/versions/v<n> exists
    checkpoints,     \* the n for which models/versions/v<n>/best.pt exists
    latest,          \* target of the models/versions/latest symlink, or None
    store_dir,       \* whether the directory models/versions exists
    strategy_info,   \* the dict last returned by determine_training_strategy
    result,          \* outcome of the last call: what it returned or raised
    peer,            \* a second trainer process: its versions, strategy_info
                     \* and result while the first one is scheduled
    export_dir,      \* data/annotations/export_*: images, labels, train, val
    pipeline,        \* the run of scripts/pipeline.py: steps started, status
    gcs              \* scripts/sync_gcs.py: local frames, sync state, bucket

vars == <<versions, manifest, dataset, version_dirs, checkpoints, latest,
          store_dir, strategy_info, result, peer, export_dir, pipeline, gcs>>

\* what the trainer shares with no other script
trainer == <<versions, manifest, dataset, version_dirs, checkpoints, latest,
             store_dir, strategy_info, peer>>

-----------------------------------------------------------------------------
(* Bounds of the model *)

\* the store is explored up to this many records
MaxVersions == 2

-----------------------------------------------------------------------------
(* Values *)

None == <<>>

NL == "\n"
SP == " "
Whitespace == {NL, SP}

VersionName(n) == <<"v", n>>

\* 'yolov8n.pt'
Baseline == <<"yolov8n.pt">>

\* str(version_dir / "best.pt") with version_dir = models/versions/v<n>
FinalWeights(n) == <<"models", "versions", "v", n, "best.pt">>

\* self.config['training'].get('initial_epochs', 50)
InitialEpochs == 50
\* self.config['training'].get('incremental_epochs', 20)
IncrementalEpochs == 20

Last(s) == s[Len(s)]

-----------------------------------------------------------------------------
(* Text: str.strip() and str.split('\n') *)

RECURSIVE LStrip(_)
LStrip(s) ==
    IF s = <<>> THEN <<>>
    ELSE IF Head(s) \in Whitespace THEN LStrip(Tail(s)) ELSE s

RECURSIVE RStrip(_)
RStrip(s) ==
    IF s = <<>> THEN <<>>
    ELSE IF s[Len(s)] \in Whitespace THEN RStrip(SubSeq(s, 1, Len(s) - 1)) ELSE s

Strip(s) == RStrip(LStrip(s))

\* s.split('\n'): the pieces between newlines; ''.split('\n') is ['']
RECURSIVE SplitNL(_, _)
SplitNL(s, cur) ==
    IF s = <<>> THEN <<cur>>
    ELSE IF Head(s) = NL THEN <<cur>> \o SplitNL(Tail(s), <<>>)
    ELSE SplitNL(Tail(s), Append(cur, Head(s)))

Split(s) == SplitNL(s, <<>>)

-----------------------------------------------------------------------------
(* Datasets: the label files below <dataset_dir>/labels *)

\* the order of sorted() on the paths labels/<dir>/<name>.txt
DirRank == [train |-> 1, val |-> 2]
NameRank == [a |-> 1, b |-> 2]
PathLess(p, q) ==
    \/ DirRank[p[1]] < DirRank[q[1]]
    \/ DirRank[p[1]] = DirRank[q[1]] /\ NameRank[p[2]] < NameRank[q[2]]

\* sorted(listing)
RECURSIVE Insert(_, _)
Insert(p, s) ==
    IF s = <<>> THEN <<p>>
    ELSE IF PathLess(p, Head(s)) THEN <<p>> \o s
    ELSE <<Head(s)>> \o Insert(p, Tail(s))

\* mutant: the files are hashed in the order the glob returns them
Sorted_as_listed(s) == s

RECURSIVE Sorted(_)
Sorted(s) == IF s = <<>> THEN <<>> ELSE Insert(Head(s), Sorted(Tail(s)))

\* the enumerations a glob over the path set S may return
Listings(S) ==
    {l \in [1..Cardinality(S) -> S] : \A p \in S : \E i \in DOMAIN l : l[i] = p}

\* dataset_dir.glob("labels/**/*.txt"): the existing label files, in the
\* order the file system happens to enumerate them
GlobLabels(ds) == CHOOSE l \in Listings(DOMAIN ds) : TRUE

\* (dataset_dir / 'labels/train').glob('*.txt')
GlobTrain(ds) == {p \in DOMAIN ds : p[1] = "train"}

\* mutant: the name of each file is hashed before its bytes
RECURSIVE Concat_named(_, _)
Concat_named(l, ds) ==
    IF l = <<>> THEN <<>>
    ELSE <<Head(l)[1], Head(l)[2]>> \o ds[Head(l)] \o Concat_named(Tail(l), ds)

\* hash_md5.update(label_file.read_bytes()) for each file of the list, in order
RECURSIVE Concat(_, _)
Concat(l, ds) == IF l = <<>> THEN <<>> ELSE ds[Head(l)] \o Concat(Tail(l), ds)

get_dataset_hash_of(listing, ds) == Concat(Sorted(listing), ds)

get_dataset_hash(ds) == get_dataset_hash_of(GlobLabels(ds), ds)

\* lines = label_file.read_text().strip().split('\n'); len(lines)
LineCount(content) == Len(Split(Strip(content)))

RECURSIVE SumLines(_, _)
SumLines(S, ds) ==
    IF S = {} THEN 0
    ELSE LET p == CHOOSE q \in S : TRUE
         IN  LineCount(ds[p]) + SumLines(S \ {p}, ds)

\* the 'total_annotations' entry of the returned stats
get_dataset_stats(ds) == [total_annotations |-> SumLines(GlobTrain(ds), ds)]

\* a label file of n annotation lines of class 0, each ended by a newline
RECURSIVE LinesContent(_)
LinesContent(n) == IF n = 0 THEN <<>> ELSE <<"0", NL>> \o LinesContent(n - 1)

EmptyDataset == [p \in {} |-> <<>>]

TrainFile(n) == [p \in {<<"train", "a">>} |-> LinesContent(n)]
ValFile(n) == [p \in {<<"val", "a">>} |-> LinesContent(n)]

\* the datasets the trainer is run on: no label file, an empty training
\* label file, a training label file of two and of three lines
Datasets == {EmptyDataset, TrainFile(0), TrainFile(2), TrainFile(3)}

-----------------------------------------------------------------------------
(* The version store and the strategy selector *)

Abs(x) == IF x < 0 THEN -x ELSE x
Max(x, y) == IF x > y THEN x ELSE y

\* Path(p).exists() for a checkpoint path p
PathExists(p, cps) == \E n \in cps : p = FinalWeights(n)

get_latest_checkpoint(vs, cps) ==
    IF vs = <<>> THEN None
    ELSE IF PathExists(Last(vs).checkpoint_path, cps)
         THEN Last(vs).checkpoint_path
         ELSE None

\* last_version.get('dataset_stats', {}).get('total_annotations', 0)
TotalOld(last_version) ==
    IF "dataset_stats" \in DOMAIN last_version
    THEN IF "total_annotations" \in DOMAIN last_version.dataset_stats
         THEN last_version.dataset_stats.total_annotations
         ELSE 0
    ELSE 0

\* mutant: the divisor is the old total itself
change_ratio_unguarded(total_new, total_old) ==
    [num |-> Abs(total_new - total_old), den |-> total_old]

\* change_ratio = abs(total_new - total_old) / max(total_old, 1), kept as the
\* fraction num / den
change_ratio(total_new, total_old) ==
    [num |-> Abs(total_new - total_old), den |-> Max(total_old, 1)]

\* mutant: a change of exactly one half already counts as major
MajorChange_inclusive(ratio) == 2 * ratio.num >= ratio.den

\* change_ratio > 0.5.  The totals are integers, so the quotient exceeds 1/2
\* exactly when twice the numerator exceeds the denominator.
MajorChange(ratio) == 2 * ratio.num > ratio.den

\* mutant: the comparison is inverted
DatasetUnchanged_inverted(last_version, dataset_hash) ==
    last_version.dataset_hash # dataset_hash

\* last_version['dataset_hash'] == dataset_hash
DatasetUnchanged(last_version, dataset_hash) ==
    last_version.dataset_hash = dataset_hash

\* mutant: the first training gets the incremental epoch budget
FirstTraining_short ==
    [strategy |-> "new", checkpoint |-> Baseline, epochs |-> IncrementalEpochs]

\* the dict returned for an empty store
FirstTraining ==
    [strategy |-> "new", checkpoint |-> Baseline, epochs |-> InitialEpochs]

\* mutant: a full retrain is labelled as a first training
FullRetrain_as_new ==
    [strategy |-> "new", checkpoint |-> Baseline, epochs |-> InitialEpochs]

\* the dict returned for a major change
FullRetrain ==
    [strategy |-> "retrain", checkpoint |-> Baseline, epochs |-> InitialEpochs]

\* the dict returned for a minor change
IncrementalTraining(vs, cps) ==
    [strategy |-> "incremental",
     checkpoint |-> get_latest_checkpoint(vs, cps),
     epochs |-> IncrementalEpochs]

determine_training_strategy(vs, ds, cps) ==
    IF vs = <<>>
    THEN FirstTraining
    ELSE IF DatasetUnchanged(Last(vs), get_dataset_hash(ds))
    THEN [strategy |-> "skip"]
    ELSE IF MajorChange(change_ratio(get_dataset_stats(ds).total_annotations,
                                     TotalOld(Last(vs))))
    THEN FullRetrain
    ELSE IncrementalTraining(vs, cps)

\* the metrics read from a results.csv that has every column
BestMetrics == [best_epoch |-> 1]
NoMetrics == [m \in {} |-> 0]

\* extract_metrics for a results.csv that is missing or well formed
extract_metrics(csv) == IF csv = "ok" THEN BestMetrics ELSE NoMetrics

\* mutant: the record never names its predecessor
version_info_no_parent(vs, info, ds, csv) ==
    [version         |-> VersionName(Len(vs) + 1),
     strategy        |-> info.strategy,
     parent_version  |-> None,
     checkpoint_path |-> FinalWeights(Len(vs) + 1),
     dataset_hash    |-> get_dataset_hash(ds),
     dataset_stats   |-> get_dataset_stats(ds),
     training_args   |-> [epochs |-> info.epochs],
     metrics         |-> extract_metrics(csv)]

\* mutant: the identifier is numbered from the length of the list
version_info_off_by_one(vs, info, ds, csv) ==
    [version         |-> VersionName(Len(vs)),
     strategy        |-> info.strategy,
     parent_version  |-> IF vs # <<>> THEN Last(vs).version ELSE None,
     checkpoint_path |-> FinalWeights(Len(vs) + 1),
     dataset_hash    |-> get_dataset_hash(ds),
     dataset_stats   |-> get_dataset_stats(ds),
     training_args   |-> [epochs |-> info.epochs],
     metrics         |-> extract_metrics(csv)]

\* mutant: the record does not keep the fingerprint of the dataset
version_info_no_hash(vs, info, ds, csv) ==
    [version         |-> VersionName(Len(vs) + 1),
     strategy        |-> info.strategy,
     parent_version  |-> IF vs # <<>> THEN Last(vs).version ELSE None,
     checkpoint_path |-> FinalWeights(Len(vs) + 1),
     dataset_hash    |-> <<"-">>,
     dataset_stats   |-> get_dataset_stats(ds),
     training_args   |-> [epochs |-> info.epochs],
     metrics         |-> extract_metrics(csv)]

\* the dict built at "Save version info"
version_info(vs, info, ds, csv) ==
    [version         |-> VersionName(Len(vs) + 1),
     strategy        |-> info.strategy,
     parent_version  |-> IF vs # <<>> THEN Last(vs).version ELSE None,
     checkpoint_path |-> FinalWeights(Len(vs) + 1),
     dataset_hash    |-> get_dataset_hash(ds),
     dataset_stats   |-> get_dataset_stats(ds),
     training_args   |-> [epochs |-> info.epochs],
     metrics         |-> extract_metrics(csv)]

NoFile == [exists |-> FALSE, records |-> <<>>, complete |-> TRUE]

\* mutant: only the newest record is written
save_last_only(vs) ==
    [exists |-> TRUE, records |-> IF vs = <<>> THEN <<>> ELSE <<Last(vs)>>,
     complete |-> TRUE]

\* mutant: the new record is added to the list found in the file
save_merge(vs) ==
    [exists |-> TRUE,
     records |-> IF vs = <<>> THEN <<>> ELSE Append(manifest.records, Last(vs)),
     complete |-> TRUE]

\* json.dump(self.versions, f) on a freshly truncated file.  Every modelled
\* field is a string, an integer, null or a string-keyed object, which
\* json.load gives back unchanged.
save_version_info(vs) == [exists |-> TRUE, records |-> vs, complete |-> TRUE]

\* the manifest when the process dies inside save_version_info: open(.., 'w')
\* has emptied the file and json.dump has written k records of the list, so
\* the text lacks at least the closing bracket
truncated(vs, k) ==
    [exists |-> TRUE, records |-> SubSeq(vs, 1, k), complete |-> FALSE]

\* mutant: a parser that accepts the records of a text cut short
json_load_lenient(m) == [raised |-> "none", value |-> m.records]

\* json.load(f): the list, or JSONDecodeError for a text that does not parse
json_load(m) ==
    IF m.complete
    THEN [raised |-> "none", value |-> m.records]
    ELSE [raised |-> "JSONDecodeError", value |-> <<>>]

Returned(op, v) == [op |-> op, raised |-> "none", value |-> v]
Raised(op, e) == [op |-> op, raised |-> e, value |-> None]

-----------------------------------------------------------------------------
(* Initial state: a trainer constructed in a fresh checkout *)

\* no export directory under data/annotations
NoExport ==
    [images |-> {}, labels |-> [n \in {} |-> <<>>], train |-> {}, val |-> {}]

\* scripts/pipeline.py has not been started
NotStarted == [status |-> "idle", mode |-> "none", args |-> <<>>, started |-> <<>>]

\* no local frame, no .gcs_sync_state.json, an empty bucket
NoSync ==
    [local      |-> [f \in {} |-> <<>>],
     state_file |-> [f \in {} |-> <<>>],
     bucket     |-> [f \in {} |-> <<>>]]

\* the other scripts of the repository have not run
OtherScriptsIdle ==
    /\ export_dir = NoExport
    /\ pipeline = NotStarted
    /\ gcs = NoSync

\* a trainer constructed on an empty store that has not been called yet
NoPeer ==
    [versions |-> <<>>, strategy_info |-> None,
     result |-> Returned("init", None)]

Init ==
    /\ versions = <<>>
    /\ manifest = NoFile
    /\ dataset \in Datasets
    /\ version_dirs = {}
    /\ checkpoints = {}
    /\ latest = None
    /\ store_dir = TRUE
    /\ strategy_info = None
    /\ result = Returned("init", None)
    /\ peer = NoPeer
    /\ OtherScriptsIdle

-----------------------------------------------------------------------------
(* Operations *)

\* IncrementalTrainer(): a new invocation creates models/versions and loads
\* the manifest
load_version_info ==
    /\ LET loaded == IF manifest.exists
                     THEN json_load(manifest)
                     ELSE [raised |-> "none", value |-> <<>>]
       IN  /\ versions' = loaded.value
           /\ result' = IF loaded.raised = "none"
                        THEN Returned("init", None)
                        ELSE Raised("init", loaded.raised)
    /\ store_dir' = TRUE
    /\ strategy_info' = None
    /\ UNCHANGED <<peer, manifest, dataset, version_dirs, checkpoints, latest>>
    /\ UNCHANGED <<export_dir, pipeline, gcs>>

\* the label files of the dataset directory are rewritten between calls, or
\* while the external trainer runs
DatasetChanges ==
    /\ \E ds \in Datasets : dataset' = ds
    /\ dataset' # dataset
    /\ UNCHANGED <<peer, versions, manifest, version_dirs, checkpoints, latest,
                   store_dir, strategy_info, result>>
    /\ UNCHANGED <<export_dir, pipeline, gcs>>

\* what determine_training_strategy computes on the way to its answer: the
\* local dataset_hash, and the local new_stats on the path that reaches it
Computed(vs, ds) ==
    [dataset_hash |-> get_dataset_hash(ds),
     new_stats    |-> IF vs # <<>>
                         /\ ~DatasetUnchanged(Last(vs), get_dataset_hash(ds))
                      THEN get_dataset_stats(ds)
                      ELSE None]

DetermineStrategy ==
    /\ strategy_info' = determine_training_strategy(versions, dataset, checkpoints)
    /\ result' = Returned("determine_training_strategy",
                          Computed(versions, dataset))
    /\ UNCHANGED <<peer, versions, manifest, dataset, version_dirs, checkpoints,
                   latest, store_dir>>
    /\ UNCHANGED <<export_dir, pipeline, gcs>>

\* The steps of train_model in program order.  A run stops at the step that
\* raises; "none" is a run in which no step raises.
StageRank ==
    [mkdir |-> 0, load |-> 1, train |-> 2, copy |-> 3, read |-> 4,
     metrics |-> 5, save |-> 6, link |-> 7, none |-> 8]
Stages == DOMAIN StageRank
Passed(fail, stage) == StageRank[fail] > StageRank[stage]

\* YOLO(str(checkpoint)) can load the baseline weights or an existing file
CanLoad(info, cps) ==
    info.checkpoint = Baseline \/ PathExists(info.checkpoint, cps)

\* latest_link.exists() follows the link: false for no link and for a link
\* whose target directory is gone
LinkExists(lnk, dirs) == lnk # None /\ lnk[2] \in dirs

\* the steps that raise whenever they are reached in this state
MustFail(fail) ==
    /\ (~store_dir) => fail = "mkdir"
    /\ (Passed(fail, "mkdir") /\ ~CanLoad(strategy_info, checkpoints))
          => fail = "load"
    /\ (Passed(fail, "save") /\ latest # None /\ ~LinkExists(latest, version_dirs))
          => fail = "link"

\* mutant: a latest link that already exists is kept
update_latest_keep(lnk, dirs, n) ==
    IF LinkExists(lnk, dirs) THEN lnk ELSE VersionName(n)

\* the latest link after lines 185-188: a link that exists is removed, then
\* the link is created with the name of the new version directory
update_latest(lnk, dirs, n) == VersionName(n)

\* mutant: the version directory is created before the skip test
train_model_skip_mkdir ==
    /\ strategy_info # None
    /\ strategy_info.strategy = "skip"
    /\ result' = IF versions = <<>>
                 THEN Raised("train_model", "IndexError")
                 ELSE Returned("train_model", Last(versions).version)
    /\ strategy_info' = None
    /\ version_dirs' = version_dirs \cup {Len(versions) + 1}
    /\ UNCHANGED <<peer, versions, manifest, dataset, checkpoints, latest,
                   store_dir>>
    /\ UNCHANGED <<export_dir, pipeline, gcs>>

\* train_model(strategy_info, dataset_dir) with the skip strategy
train_model_skip ==
    /\ strategy_info # None
    /\ strategy_info.strategy = "skip"
    /\ result' = IF versions = <<>>
                 THEN Raised("train_model", "IndexError")
                 ELSE Returned("train_model", Last(versions).version)
    /\ strategy_info' = None
    /\ UNCHANGED <<peer, versions, manifest, dataset, version_dirs, checkpoints,
                   latest, store_dir>>
    /\ UNCHANGED <<export_dir, pipeline, gcs>>

\* train_model(strategy_info, dataset_dir) with any other strategy.  fail is
\* the step that raises (none: the run completes) and csv the state of the
\* trainer's results.csv: missing, ok, or lacking a column (the metrics step
\* raises KeyError).
train_model(fail, csv) ==
    /\ strategy_info # None
    /\ strategy_info.strategy # "skip"
    /\ Len(versions) < MaxVersions
    /\ fail = "mkdir" <=> ~store_dir
    /\ MustFail(fail)
    /\ csv = "malformed" <=> fail = "metrics"
    /\ (~Passed(fail, "metrics")) => csv # "ok"
    /\ LET n   == Len(versions) + 1
           rec == version_info(versions, strategy_info, dataset, csv)
       IN  /\ version_dirs' = IF Passed(fail, "mkdir")
                              THEN version_dirs \cup {n} ELSE version_dirs
           /\ checkpoints' = IF Passed(fail, "copy")
                             THEN checkpoints \cup {n} ELSE checkpoints
           /\ versions' = IF Passed(fail, "metrics")
                          THEN Append(versions, rec) ELSE versions
           /\ manifest' = IF Passed(fail, "save")
                          THEN save_version_info(versions') ELSE manifest
           /\ latest' = IF Passed(fail, "link")
                        THEN update_latest(latest, version_dirs', n)
                        ELSE latest
           /\ result' = IF fail = "none"
                        THEN Returned("train_model", VersionName(n))
                        ELSE Raised("train_model", fail)
    /\ strategy_info' = None
    /\ UNCHANGED <<peer, dataset, store_dir>>
    /\ UNCHANGED <<export_dir, pipeline, gcs>>

\* the version arguments tried: omitted, the first version, a version that
\* is never created
VersionArgs == {None, VersionName(1), VersionName(MaxVersions + 1)}

\* next(v for v in self.versions if v['version'] == version)
Found(vs, version) == \E i \in DOMAIN vs : vs[i].version = version
Lookup(vs, version) ==
    vs[CHOOSE i \in DOMAIN vs :
          /\ vs[i].version = version
          /\ \A j \in DOMAIN vs : vs[j].version = version => i <= j]

\* mutant: an unknown version is reported and the call returns
NotFound_silent(op) == Returned(op, None)

\* next() on a generator that yields no record: nothing catches StopIteration
NotFound(op) == Raised(op, "StopIteration")

compare_versions(version1, version2) ==
    /\ LET v1 == IF version1 = None
                 THEN IF Len(versions) >= 2
                      THEN versions[Len(versions) - 1].version ELSE None
                 ELSE version1
           v2 == IF version2 = None
                 THEN IF versions # <<>> THEN Last(versions).version ELSE None
                 ELSE version2
       IN  result' =
             IF v1 = None \/ v2 = None
             THEN Returned("compare_versions", <<"need at least 2 versions">>)
             ELSE IF ~Found(versions, v1) \/ ~Found(versions, v2)
             THEN NotFound("compare_versions")
             ELSE Returned("compare_versions",
                           <<Lookup(versions, v1).version,
                             Lookup(versions, v2).version>>)
    /\ UNCHANGED <<peer, versions, manifest, dataset, version_dirs, checkpoints,
                   latest, store_dir, strategy_info>>
    /\ UNCHANGED <<export_dir, pipeline, gcs>>

\* export_for_deployment(version, format).  The exported file is written
\* below the version's directory and no operation reads it back, so only the
\* outcome of the call is kept.
export_for_deployment(version) ==
    /\ result' =
          IF version = None /\ versions = <<>>
          THEN Raised("export_for_deployment", "IndexError")
          ELSE LET v == IF version = None THEN Last(versions).version ELSE version
               IN  IF ~Found(versions, v)
                   THEN NotFound("export_for_deployment")
                   ELSE IF ~PathExists(Lookup(versions, v).checkpoint_path,
                                       checkpoints)
                   THEN Raised("export_for_deployment", "load")
                   ELSE Returned("export_for_deployment", v)
    /\ UNCHANGED <<peer, versions, manifest, dataset, version_dirs, checkpoints,
                   latest, store_dir, strategy_info>>
    /\ UNCHANGED <<export_dir, pipeline, gcs>>

\* scripts/nuke.py: shutil.rmtree("models") removes the manifest, every
\* version directory and the latest link, shutil.rmtree("data/annotations")
\* the export directories; a trainer object that is alive keeps its
\* in-memory list
nuke_directories ==
    /\ store_dir
    /\ manifest' = NoFile
    /\ version_dirs' = {}
    /\ checkpoints' = {}
    /\ latest' = None
    /\ store_dir' = FALSE
    /\ export_dir' = NoExport
    /\ UNCHANGED <<peer, versions, dataset, strategy_info, result, pipeline,
                   gcs>>

Next ==
    \/ load_version_info
    \/ DatasetChanges
    \/ DetermineStrategy
    \/ train_model_skip
    \/ \E fail \in Stages, csv \in {"missing", "malformed"} :
          train_model(fail, csv)
    \/ \E a \in VersionArgs, b \in VersionArgs : compare_versions(a, b)
    \/ \E v \in VersionArgs : export_for_deployment(v)
    \/ nuke_directories

Spec == Init /\ [][Next]_vars

-----------------------------------------------------------------------------
(* Properties of the version store *)

IsPrefix(s, t) == Len(s) <= Len(t) /\ SubSeq(t, 1, Len(s)) = s

\* record 1 has no parent; record i > 1 has the version of record i-1 as parent
Chain(s) ==
    \A i \in DOMAIN s :
        s[i].parent_version = IF i = 1 THEN None ELSE s[i - 1].version

\* a call of train_model in which no step raises and the strategy is not skip
SuccessfulRun ==
    /\ result'.op = "train_model"
    /\ result'.raised = "none"
    /\ \E csv \in {"missing", "ok"} : train_model("none", csv)

\* a call of train_model in which some step raises
FailedRun ==
    /\ result'.op = "train_model"
    /\ result'.raised # "none"
    /\ \E fail \in Stages \ {"none"}, csv \in {"missing", "malformed"} :
        train_model(fail, csv)

\* C1: in every reachable state the records of the store, in memory and in
\* the manifest, form a linear chain: the first record has parent_version
\* none and every later record has the version of its predecessor as parent.
C1_LinearChain == Chain(versions) /\ Chain(manifest.records)

C1_Witness ==
    /\ Len(versions) = MaxVersions
    /\ manifest.records = versions
    /\ result.op = "train_model"
    /\ result = Returned("train_model", VersionName(MaxVersions))

\* C2: the identifiers of the store are v1, v2, ..., vN in order (hence
\* unique), and a successful non-skip run adds exactly one record, leaving
\* the earlier records with their identifiers in place; so N such runs on an
\* empty store give exactly the records v1..vN.
C2_SequentialIds ==
    /\ [](\A i \in DOMAIN versions : versions[i].version = VersionName(i))
    /\ [][SuccessfulRun =>
            /\ Len(versions') = Len(versions) + 1
            /\ SubSeq(versions', 1, Len(versions)) = versions
            /\ result' = Returned("train_model", VersionName(Len(versions')))]_vars

C2_Witness ==
    /\ Len(versions) = MaxVersions
    /\ \A i \in DOMAIN versions : versions[i].version = VersionName(i)
    /\ result.op = "train_model" /\ result.raised = "none"
    /\ latest = VersionName(MaxVersions)

\* C3: the store is append-only under the trainer's operations.  Every step
\* other than the deletion of the models directory by nuke.py keeps the
\* manifest in place with its earlier records as a prefix of the later ones;
\* every step of a trainer keeps its in-memory records as a prefix of the
\* later ones; and loading gives a new trainer exactly the manifest's records.
C3_AppendOnly ==
    /\ [][(~nuke_directories) =>
            /\ manifest.exists => manifest'.exists
            /\ IsPrefix(manifest.records, manifest'.records)]_vars
    /\ [][IsPrefix(versions, versions') \/ load_version_info]_vars
    /\ [][load_version_info =>
            /\ manifest' = manifest
            /\ versions' = manifest.records]_vars

C3_Witness ==
    /\ Len(manifest.records) = MaxVersions
    /\ versions = manifest.records
    /\ result.op = "export_for_deployment"
    /\ result.raised = "none"

\* C4: a call of train_model in which a step raises leaves the in-memory
\* list and the manifest as they were before the call.
C4_FailureLeavesStore ==
    [][FailedRun => UNCHANGED <<versions, manifest>>]_vars

-----------------------------------------------------------------------------
(* Properties of the strategy selector *)

Strategies == {"new", "skip", "retrain", "incremental"}

\* the store is non-empty and the latest record holds the current fingerprint
FingerprintStored ==
    /\ versions # <<>>
    /\ Last(versions).dataset_hash = get_dataset_hash(dataset)

\* the store is non-empty and the latest record holds another fingerprint
FingerprintDiffers ==
    /\ versions # <<>>
    /\ Last(versions).dataset_hash # get_dataset_hash(dataset)

TotalNew == get_dataset_stats(dataset).total_annotations

\* a call of determine_training_strategy
DetermineCall ==
    /\ result'.op = "determine_training_strategy"
    /\ DetermineStrategy

\* C5: determine_training_strategy returns skip exactly when the store is
\* non-empty and the dataset's fingerprint equals the dataset_hash of the
\* latest record, and new, retrain or incremental in every other case.
C5_SkipIffSameFingerprint ==
    [][DetermineCall =>
         /\ strategy_info'.strategy \in Strategies
         /\ strategy_info'.strategy = "skip" <=> FingerprintStored]_vars

C5_Witness ==
    /\ result.op = "determine_training_strategy"
    /\ strategy_info # None
    /\ strategy_info.strategy = "skip"
    /\ FingerprintStored

\* C6: on an empty store determine_training_strategy returns new with the
\* baseline checkpoint and the initial epoch budget, whatever the dataset.
C6_EmptyStoreIsNew ==
    [][(DetermineCall /\ versions = <<>>) =>
         strategy_info' = [strategy   |-> "new",
                           checkpoint |-> <<"yolov8n.pt">>,
                           epochs     |-> InitialEpochs]]_vars

C6_Witness ==
    /\ result.op = "determine_training_strategy"
    /\ versions = <<>>
    /\ strategy_info # None
    /\ strategy_info.strategy = "new"
    /\ TotalNew > 0

\* C7: with a non-empty store and a fingerprint other than the latest
\* record's, the selector returns retrain (baseline checkpoint, initial epoch
\* budget) exactly when abs(new - old) / max(old, 1) > 1/2, and incremental
\* otherwise.
C7_ThresholdRule ==
    [][(DetermineCall /\ FingerprintDiffers) =>
         LET old  == Last(versions).dataset_stats.total_annotations
             diff == IF TotalNew >= old THEN TotalNew - old ELSE old - TotalNew
             div  == IF old >= 1 THEN old ELSE 1
         IN  IF 2 * diff > div
             THEN strategy_info' = [strategy   |-> "retrain",
                                    checkpoint |-> <<"yolov8n.pt">>,
                                    epochs     |-> InitialEpochs]
             ELSE strategy_info'.strategy = "incremental"]_vars

C7_Witness ==
    /\ result.op = "determine_training_strategy"
    /\ FingerprintDiffers
    /\ strategy_info # None
    /\ strategy_info.strategy = "retrain"
    /\ Last(versions).dataset_stats.total_annotations = 3
    /\ TotalNew = 1

\* C8: when the change is exactly one half of the old total (old 2 and new 3
\* or 1) and the fingerprint differs, the selector returns incremental.
C8_BoundaryIsIncremental ==
    [][(/\ DetermineCall
        /\ FingerprintDiffers
        /\ LET old == Last(versions).dataset_stats.total_annotations
           IN  old >= 1 /\ (2 * TotalNew = 3 * old \/ 2 * TotalNew = old))
       => strategy_info'.strategy = "incremental"]_vars

C8_Witness ==
    /\ result.op = "determine_training_strategy"
    /\ FingerprintDiffers
    /\ Last(versions).dataset_stats.total_annotations = 2
    /\ TotalNew = 3
    /\ strategy_info # None
    /\ strategy_info.strategy = "incremental"

\* C9: whenever determine_training_strategy returns incremental, the
\* checkpoint it returns is the checkpoint_path of the latest record and the
\* epoch budget is the incremental one.
C9_IncrementalFromLatest ==
    [][(DetermineCall /\ strategy_info'.strategy = "incremental") =>
         /\ strategy_info'.checkpoint = Last(versions).checkpoint_path
         /\ strategy_info'.epochs = IncrementalEpochs]_vars

-----------------------------------------------------------------------------
(* The selector on a store loaded from a manifest *)

\* the datasets the selector is tried on: those of the trainer, each with
\* and without a validation label file
AllDatasets == {t @@ v : t \in Datasets, v \in {EmptyDataset, ValFile(1)}}

\* the record of a first run on dataset ds as json.load returns it; a
\* manifest written without the dataset_stats key loads as well
LoadedRecord(ds, with_stats) ==
    LET rec == version_info(<<>>, FirstTraining, ds, "missing")
    IN  IF with_stats
        THEN rec
        ELSE [k \in DOMAIN rec \ {"dataset_stats"} |-> rec[k]]

SelectorInit ==
    /\ \E ds \in AllDatasets, with_stats \in BOOLEAN :
          versions = <<LoadedRecord(ds, with_stats)>>
    /\ manifest = save_version_info(versions)
    /\ dataset \in AllDatasets
    /\ version_dirs = {1}
    /\ checkpoints = {1}
    /\ latest = VersionName(1)
    /\ store_dir = TRUE
    /\ strategy_info = None
    /\ result = Returned("init", None)
    /\ peer = NoPeer
    /\ OtherScriptsIdle

SelectorNext == DetermineStrategy

SelectorSpec == SelectorInit /\ [][SelectorNext]_vars

\* the latest record has no dataset_stats, or a total annotation count of 0
OldTotalZero ==
    /\ versions # <<>>
    /\ \/ "dataset_stats" \notin DOMAIN Last(versions)
       \/ Last(versions).dataset_stats.total_annotations = 0

\* C10: the divisor of the change ratio is never zero; when the latest
\* record's total is 0 or its dataset_stats is missing, the divisor is 1 and
\* the ratio is the new total, so that (the fingerprint being different) the
\* selector returns retrain for a new total of at least 1 and incremental for
\* a new total of 0.
C10_NoDivisionByZero ==
    [][(DetermineCall /\ FingerprintDiffers) =>
         LET ratio == change_ratio(TotalNew, TotalOld(Last(versions)))
         IN  /\ ratio.den >= 1
             /\ OldTotalZero =>
                  /\ ratio.den = 1
                  /\ ratio.num = TotalNew
                  /\ strategy_info'.strategy =
                       IF TotalNew >= 1 THEN "retrain" ELSE "incremental"]_vars

C10_Witness ==
    /\ result.op = "determine_training_strategy"
    /\ FingerprintDiffers
    /\ "dataset_stats" \notin DOMAIN Last(versions)
    /\ TotalNew = 0
    /\ strategy_info # None
    /\ strategy_info.strategy = "incremental"

-----------------------------------------------------------------------------
(* Properties of the orchestrator *)

\* a call of train_model with the skip strategy
SkipCall ==
    /\ result'.op = "train_model"
    /\ train_model_skip

\* C11: train_model with the skip strategy on a non-empty store returns the
\* version of the latest record and changes nothing: no record is appended,
\* the manifest is not rewritten, no version directory or checkpoint appears
\* and the latest link stays as it is.
C11_SkipHasNoEffect ==
    [][(SkipCall /\ versions # <<>>) =>
         /\ result' = Returned("train_model", versions[Len(versions)].version)
         /\ UNCHANGED <<versions, manifest, dataset, version_dirs, checkpoints,
                        latest, store_dir>>]_vars

\* a skip run has returned on a trainer whose models directory is gone (a
\* run with another strategy raises there), and it created nothing
C11_Witness ==
    /\ versions # <<>>
    /\ result.op = "train_model"
    /\ result = Returned("train_model", Last(versions).version)
    /\ ~store_dir
    /\ version_dirs = {}
    /\ ~manifest.exists

\* the report compare_versions prints when it has no two versions to compare
InsufficientHistory(r) ==
    r = Returned("compare_versions", <<"need at least 2 versions">>)

\* C12: compare_versions on a store with fewer than two records ends with
\* the insufficient-history report, whether the arguments are omitted or
\* given; on a store with two or more records and both arguments omitted it
\* compares the second-to-last record against the last.
C12_CompareNeedsTwo ==
    [][result'.op = "compare_versions" =>
         \A version1, version2 \in VersionArgs :
            compare_versions(version1, version2) =>
               /\ Len(versions) < 2 => InsufficientHistory(result')
               /\ (Len(versions) >= 2 /\ version1 = None /\ version2 = None) =>
                    result' = Returned("compare_versions",
                                       <<versions[Len(versions) - 1].version,
                                         versions[Len(versions)].version>>)]_vars

\* the records compare_versions looks up: an omitted argument is replaced
\* by a default, which is None when the store is too short
Resolved1(version1) ==
    IF version1 # None THEN version1
    ELSE IF Len(versions) >= 2 THEN versions[Len(versions) - 1].version
    ELSE None
Resolved2(version2) ==
    IF version2 # None THEN version2
    ELSE IF versions # <<>> THEN Last(versions).version
    ELSE None

\* main with --compare or --export on a store grown by runs in which no
\* step fails
QueryNext ==
    \/ load_version_info
    \/ DatasetChanges
    \/ DetermineStrategy
    \/ train_model_skip
    \/ train_model("none", "missing")
    \/ \E a \in VersionArgs, b \in VersionArgs : compare_versions(a, b)
    \/ \E v \in VersionArgs : export_for_deployment(v)

QuerySpec == Init /\ [][QueryNext]_vars

\* the store of one trainer: the in-memory list and what is on disk
store == <<versions, manifest, version_dirs, checkpoints, latest, store_dir>>

\* C14: a lookup of a version that is not in the store, in compare_versions
\* or in export_for_deployment, fails with the not-found error of next()
\* and leaves the store unchanged.
C14_UnknownVersionFails ==
    /\ [][result'.op = "compare_versions" =>
            \A version1, version2 \in VersionArgs :
               (/\ compare_versions(version1, version2)
                /\ Resolved1(version1) # None
                /\ Resolved2(version2) # None
                /\ \/ ~Found(versions, Resolved1(version1))
                   \/ ~Found(versions, Resolved2(version2))) =>
                  /\ result' = Raised("compare_versions", "StopIteration")
                  /\ UNCHANGED store]_vars
    /\ [][result'.op = "export_for_deployment" =>
            \A version \in VersionArgs \ {None} :
               (/\ export_for_deployment(version)
                /\ ~Found(versions, version)) =>
                  /\ result' = Raised("export_for_deployment", "StopIteration")
                  /\ UNCHANGED store]_vars

\* export_for_deployment was given a version that a store of one record
\* does not hold, and the store is as the successful run left it
C14_Witness ==
    /\ Len(versions) = 1
    /\ result = Raised("export_for_deployment", "StopIteration")
    /\ manifest = save_version_info(versions)
    /\ latest = VersionName(1)

\* C15: when the trainer's results file is missing, or present without the
\* fitness column or a metric column, extract_metrics yields an empty metrics
\* map and the run still succeeds: the record is appended with empty metrics.
C15_MetricsNeverFail ==
    [][result'.op = "train_model" =>
         \A csv \in {"missing", "malformed"} :
            (train_model("none", csv) \/ train_model("metrics", csv)) =>
               /\ result'.raised = "none"
               /\ Len(versions') = Len(versions) + 1
               /\ versions'[Len(versions')].metrics = NoMetrics]_vars

\* C18: after every successful run with a strategy other than skip the
\* latest link names the directory of the last record of the store, also
\* when a latest link existed before the run.
C18_LatestFollowsLastRecord ==
    [][SuccessfulRun =>
         /\ latest' = Last(versions').version
         /\ latest'[2] \in version_dirs'
         /\ Last(versions').checkpoint_path = FinalWeights(latest'[2])]_vars

\* the second run replaced the link that the first run had created
C18_Witness ==
    /\ Len(versions) = 2
    /\ result.op = "train_model"
    /\ result = Returned("train_model", VersionName(2))
    /\ latest = VersionName(2)
    /\ version_dirs = {1, 2}

-----------------------------------------------------------------------------
(* The process dies while it writes the manifest *)

\* a trainer object exists: the constructor returned and the process lives
Alive == result.raised \notin {"JSONDecodeError", "crash"}

\* train_model in which the process dies inside save_version_info, after k
\* records were written; what the dead process held in memory is gone
save_crash(k) ==
    /\ strategy_info # None
    /\ strategy_info.strategy # "skip"
    /\ Len(versions) < MaxVersions
    /\ MustFail("none")
    /\ k \in 0..Len(versions)
    /\ LET n   == Len(versions) + 1
           rec == version_info(versions, strategy_info, dataset, "missing")
       IN  /\ version_dirs' = version_dirs \cup {n}
           /\ checkpoints' = checkpoints \cup {n}
           /\ manifest' = truncated(Append(versions, rec), k)
    /\ versions' = <<>>
    /\ strategy_info' = None
    /\ result' = Raised("train_model", "crash")
    /\ UNCHANGED <<peer, dataset, latest, store_dir>>
    /\ UNCHANGED <<export_dir, pipeline, gcs>>

CrashNext ==
    \/ load_version_info
    \/ nuke_directories
    \/ Alive /\ DatasetChanges
    \/ Alive /\ DetermineStrategy
    \/ Alive /\ train_model_skip
    \/ Alive /\ train_model("none", "missing")
    \/ Alive /\ \E k \in 0..(MaxVersions - 1) : save_crash(k)

CrashSpec == Init /\ [][CrashNext]_vars

\* a construction of the trainer
LoadCall ==
    /\ result'.op = "init"
    /\ load_version_info

\* C13: loading never fails when the manifest is missing and yields the
\* empty store; when the manifest exists and does not parse, loading fails
\* with the parser's error and the manifest file is left as it was.
C13_LoadMissingOrCorrupt ==
    [][LoadCall =>
         /\ (~manifest.exists) =>
               (result' = Returned("init", None) /\ versions' = <<>>)
         /\ (manifest.exists /\ ~manifest.complete) =>
               (result' = Raised("init", "JSONDecodeError")
                /\ manifest' = manifest)]_vars

\* a new invocation was started on the manifest that a dead run left cut
\* short, and failed
C13_Witness ==
    /\ result = Raised("init", "JSONDecodeError")
    /\ manifest.exists
    /\ ~manifest.complete

\* C16: when the process dies while the manifest is written, the manifest
\* holds either the complete list of before the append or the complete list
\* of after it, never a text cut short.
C16_SaveIsAtomic ==
    [][(result'.raised = "crash") =>
         /\ manifest'.complete
         /\ \/ manifest' = manifest
            \/ /\ manifest'.exists
               /\ Len(manifest'.records) = Len(manifest.records) + 1
               /\ IsPrefix(manifest.records, manifest'.records)]_vars

-----------------------------------------------------------------------------
(* Two trainer processes on one store *)

\* the scheduler passes control to the other process: each process keeps
\* its own self.versions, strategy and outcome; the files are shared
Switch ==
    /\ peer' = [versions |-> versions, strategy_info |-> strategy_info,
                result |-> result]
    /\ versions' = peer.versions
    /\ strategy_info' = peer.strategy_info
    /\ result' = peer.result
    /\ UNCHANGED <<manifest, dataset, version_dirs, checkpoints, latest,
                   store_dir>>
    /\ UNCHANGED <<export_dir, pipeline, gcs>>

\* the datasets the two processes see: annotations are added or removed
\* between their runs
RaceDatasets == {TrainFile(2), TrainFile(3)}

RaceInit == Init /\ dataset \in RaceDatasets

RaceNext ==
    \/ Switch
    \/ load_version_info
    \/ DatasetChanges /\ dataset' \in RaceDatasets
    \/ DetermineStrategy
    \/ train_model_skip
    \/ train_model("none", "missing")

RaceSpec == RaceInit /\ [][RaceNext]_vars

\* the running process completes a run on the N records it loaded, after the
\* other process completed its run on the same N records
SecondWriter ==
    /\ SuccessfulRun
    /\ Len(peer.versions) = Len(versions) + 1
    /\ IsPrefix(versions, peer.versions)
    /\ peer.result.op = "train_model"
    /\ peer.result.raised = "none"

\* C17: when two trainer processes load the same store of N records and
\* both complete a run with a strategy other than skip, the manifest is the
\* list of the process that saved last: it has N + 1 records, both runs
\* returned the version N + 1, and the record of the first writer is not in
\* the manifest.
C17_LastWriterWins ==
    [][SecondWriter =>
         /\ manifest'.exists
         /\ manifest'.records = versions'
         /\ Len(manifest'.records) = Len(versions) + 1
         /\ result' = Returned("train_model", VersionName(Len(versions) + 1))
         /\ peer.result = result'
         /\ (Last(peer.versions) # Last(versions')) =>
               \A i \in DOMAIN manifest'.records :
                  manifest'.records[i] # Last(peer.versions)]_vars

\* both processes have run on the empty store with different datasets: the
\* manifest holds the one record of the running process and not the other's
C17_Witness ==
    /\ Len(versions) = 1
    /\ Len(peer.versions) = 1
    /\ result.op = "train_model"
    /\ peer.result.op = "train_model"
    /\ result = Returned("train_model", VersionName(1))
    /\ peer.result = result
    /\ versions # peer.versions
    /\ manifest = save_version_info(versions)

-----------------------------------------------------------------------------
(* get_dataset_hash and get_dataset_stats on label directories *)

\* label files: empty, a single blank, one annotation, and two annotations
\* of different classes with a blank line between them
LabelContents == {<<>>, <<SP>>, <<"0", NL>>, <<"1", NL, NL, "0", NL>>}

LabelPaths == {<<"train", "a">>, <<"train", "b">>, <<"val", "a">>}

\* every choice of existing label files and of their contents
LabelDatasets ==
    UNION {[S -> LabelContents] : S \in SUBSET LabelPaths}

LabelInit ==
    /\ dataset \in LabelDatasets
    /\ versions = <<>>
    /\ manifest = NoFile
    /\ version_dirs = {}
    /\ checkpoints = {}
    /\ latest = None
    /\ store_dir = TRUE
    /\ strategy_info = None
    /\ result = Returned("init", None)
    /\ peer = NoPeer
    /\ OtherScriptsIdle

\* get_dataset_hash(dataset_dir), the glob enumerating in any order
HashCall ==
    /\ \E listing \in Listings(DOMAIN dataset) :
          result' = Returned("get_dataset_hash",
                             get_dataset_hash_of(listing, dataset))
    /\ UNCHANGED <<versions, manifest, dataset, version_dirs, checkpoints,
                   latest, store_dir, strategy_info, peer>>
    /\ UNCHANGED <<export_dir, pipeline, gcs>>

\* get_dataset_stats(dataset_dir)
StatsCall ==
    /\ result' = Returned("get_dataset_stats", get_dataset_stats(dataset))
    /\ UNCHANGED <<versions, manifest, dataset, version_dirs, checkpoints,
                   latest, store_dir, strategy_info, peer>>
    /\ UNCHANGED <<export_dir, pipeline, gcs>>

LabelNext == HashCall \/ StatsCall

LabelSpec == LabelInit /\ [][LabelNext]_vars

\* C19: the fingerprint does not depend on the order in which the file
\* system enumerates the label files: every enumeration of the same files
\* with the same contents gives the fingerprint that was computed, which is
\* the hash of the contents taken in path order.
C19_HashIgnoresListingOrder ==
    [][result'.op = "get_dataset_hash" =>
         /\ \A listing \in Listings(DOMAIN dataset) :
               result'.value = get_dataset_hash_of(listing, dataset)
         /\ \A p \in LabelPaths, q \in LabelPaths :
               (DOMAIN dataset = {p, q} /\ PathLess(p, q)) =>
                  result'.value = dataset[p] \o dataset[q]]_vars

\* a fingerprint was computed over three label files of which the first two
\* in path order differ, so that an enumeration in another order is seen
C19_Witness ==
    /\ result.op = "get_dataset_hash"
    /\ DOMAIN dataset = LabelPaths
    /\ dataset[<<"train", "a">>] = <<"1", NL, NL, "0", NL>>
    /\ dataset[<<"train", "b">>] = <<"0", NL>>
    /\ result.value = dataset[<<"train", "a">>] \o dataset[<<"train", "b">>]
                         \o dataset[<<"val", "a">>]

\* the lines of a label file that hold an annotation
NonEmptyLines(content) ==
    LET lines == Split(content)
    IN  Cardinality({i \in DOMAIN lines :
                       \E j \in DOMAIN lines[i] : lines[i][j] \notin Whitespace})

RECURSIVE SumNonEmpty(_, _)
SumNonEmpty(S, ds) ==
    IF S = {} THEN 0
    ELSE LET p == CHOOSE q \in S : TRUE
         IN  NonEmptyLines(ds[p]) + SumNonEmpty(S \ {p}, ds)

\* C20: total_annotations of get_dataset_stats is the number of non-empty
\* lines over the files of labels/train: an empty or whitespace-only label
\* file adds nothing, and blank lines in a file are not counted.
C20_CountsNonEmptyLines ==
    [][result'.op = "get_dataset_stats" =>
         result'.value.total_annotations =
            SumNonEmpty(GlobTrain(dataset), dataset)]_vars

-----------------------------------------------------------------------------
(* Further properties of the orchestrator *)

\* C22: right after a successful run with a strategy other than skip,
\* determine_training_strategy on the unchanged dataset returns skip; the
\* selector changes no record, and a skip run changes neither a record nor
\* the dataset, so that repeating determine-then-run leaves the store with
\* the same records.
C22_RunThenSkipIsIdempotent ==
    /\ [][SuccessfulRun =>
            determine_training_strategy(versions', dataset',
                                        checkpoints').strategy = "skip"]_vars
    /\ [][DetermineCall => UNCHANGED <<versions, manifest, dataset>>]_vars
    /\ [][(SkipCall /\ versions # <<>>) =>
            /\ UNCHANGED <<versions, manifest, dataset>>
            /\ result' = Returned("train_model", Last(versions).version)]_vars

\* the selector answered skip on the dataset that the one run of the store
\* recorded, and the store is as that run left it
C22_Witness ==
    /\ Len(versions) = 1
    /\ manifest = save_version_info(versions)
    /\ versions[1].dataset_hash = get_dataset_hash(dataset)
    /\ versions[1].dataset_stats = get_dataset_stats(dataset)
    /\ result.op = "determine_training_strategy"
    /\ strategy_info = [strategy |-> "skip"]

\* C23: the dataset_hash and dataset_stats of a new record are the
\* fingerprint and the statistics that determine_training_strategy computed
\* when it chose the strategy of that run, also when label files change
\* between the selector's call and the end of the training.
C23_RecordHoldsSelectorValues ==
    [][(result.op = "determine_training_strategy" /\ SuccessfulRun) =>
         /\ Last(versions').dataset_hash = result.value.dataset_hash
         /\ result.value.new_stats # None =>
               Last(versions').dataset_stats = result.value.new_stats]_vars

\* the records of the list vs have a training strategy, and new marks the
\* first record and no other
StoredStrategies(vs) ==
    \A i \in DOMAIN vs :
       /\ vs[i].strategy \in {"new", "retrain", "incremental"}
       /\ vs[i].strategy = "new" <=> i = 1

\* C24: with strategies taken from determine_training_strategy no record
\* with strategy skip is stored: every record, in memory and in the
\* manifest, has strategy new, retrain or incremental, and a record has
\* strategy new exactly when it is the first record of the store.
C24_StoredStrategies ==
    /\ StoredStrategies(versions)
    /\ StoredStrategies(manifest.records)

\* a store of two records, the second written by a full retrain
C24_Witness ==
    /\ Len(versions) = 2
    /\ versions[1].strategy = "new"
    /\ versions[2].strategy = "retrain"
    /\ manifest.records = versions

\* the manifest m holds exactly the list vs; no manifest stands for the
\* empty list
Agree(vs, m) ==
    \/ m.exists /\ m.complete /\ m.records = vs
    \/ ~m.exists /\ vs = <<>>

\* an operation of the trainer that returns normally
NormalReturn ==
    /\ result'.raised = "none"
    /\ \/ result'.op = "init" /\ load_version_info
       \/ result'.op = "determine_training_strategy" /\ DetermineStrategy
       \/ result'.op = "train_model" /\ train_model_skip
       \/ result'.op = "train_model" /\ train_model("none", "missing")
       \/ /\ result'.op = "compare_versions"
          /\ \E a \in VersionArgs, b \in VersionArgs : compare_versions(a, b)
       \/ /\ result'.op = "export_for_deployment"
          /\ \E v \in VersionArgs : export_for_deployment(v)

\* C25: after every operation of the trainer that returns normally the
\* manifest is exactly the in-memory list, neither ahead of it nor behind,
\* and after a run with a strategy other than skip the last record's version
\* is the identifier the run returned.
C25_ManifestIsMemory ==
    [][NormalReturn =>
         /\ Agree(versions', manifest')
         /\ SuccessfulRun => Last(versions').version = result'.value]_vars

-----------------------------------------------------------------------------
(* Label files edited after a run has recorded them *)

\* a label file that does not exist yet is created empty
AddEmptyFile(p) ==
    /\ p \notin DOMAIN dataset
    /\ dataset' = [x \in DOMAIN dataset \cup {p} |->
                     IF x = p THEN <<>> ELSE dataset[x]]

\* an empty label file is deleted
RemoveEmptyFile(p) ==
    /\ p \in DOMAIN dataset
    /\ dataset[p] = <<>>
    /\ dataset' = [x \in DOMAIN dataset \ {p} |-> dataset[x]]

\* the label file p is renamed to q and keeps its place in the path order
RenameFile(p, q) ==
    /\ p \in DOMAIN dataset
    /\ q \notin DOMAIN dataset
    /\ \A r \in DOMAIN dataset \ {p} : PathLess(r, p) <=> PathLess(r, q)
    /\ dataset' = [x \in (DOMAIN dataset \ {p}) \cup {q} |->
                     IF x = q THEN dataset[p] ELSE dataset[x]]

\* the last k bytes of the label file p are moved to the start of q, the
\* next label file in path order
MoveBytes(p, q, k) ==
    /\ p \in DOMAIN dataset
    /\ q \in DOMAIN dataset
    /\ PathLess(p, q)
    /\ \A r \in DOMAIN dataset : ~(PathLess(p, r) /\ PathLess(r, q))
    /\ k \in 1..Len(dataset[p])
    /\ LET n == Len(dataset[p])
       IN  dataset' = [dataset EXCEPT
                         ![p] = SubSeq(dataset[p], 1, n - k),
                         ![q] = SubSeq(dataset[p], n - k + 1, n) \o dataset[q]]

\* largest number of bytes moved in one edit
MaxMove == 2

EditLabels ==
    /\ \/ \E p \in LabelPaths : AddEmptyFile(p)
       \/ \E p \in LabelPaths : RemoveEmptyFile(p)
       \/ \E p \in LabelPaths, q \in LabelPaths : RenameFile(p, q)
       \/ \E p \in LabelPaths, q \in LabelPaths, k \in 1..MaxMove :
             MoveBytes(p, q, k)
    /\ UNCHANGED <<versions, manifest, version_dirs, checkpoints, latest,
                   store_dir, strategy_info, result, peer>>
    /\ UNCHANGED <<export_dir, pipeline, gcs>>

\* a first run has recorded a dataset of one training label file
EditInit ==
    /\ dataset \in {TrainFile(2), TrainFile(3)}
    /\ versions = <<LoadedRecord(dataset, TRUE)>>
    /\ manifest = save_version_info(versions)
    /\ version_dirs = {1}
    /\ checkpoints = {1}
    /\ latest = VersionName(1)
    /\ store_dir = TRUE
    /\ strategy_info = None
    /\ result = Returned("init", None)
    /\ peer = NoPeer
    /\ OtherScriptsIdle

EditNext == EditLabels \/ DetermineStrategy

EditSpec == EditInit /\ [][EditNext]_vars

\* C26: the fingerprint is the hash of the label files' contents joined in
\* path order and of nothing else: adding or removing an empty label file,
\* renaming a label file without changing the path order, and moving the
\* last bytes of a file to the start of the next one all leave it unchanged,
\* and determine_training_strategy then returns skip for the changed dataset.
C26_HashIgnoresNamesAndBoundaries ==
    /\ [][dataset' # dataset =>
            get_dataset_hash(dataset') = get_dataset_hash(dataset)]_vars
    /\ [][DetermineCall => strategy_info' = [strategy |-> "skip"]]_vars

\* the selector answered skip although the one recorded training label file
\* is now two files under other names
C26_Witness ==
    /\ result.op = "determine_training_strategy"
    /\ strategy_info = [strategy |-> "skip"]
    /\ DOMAIN dataset = {<<"train", "b">>, <<"val", "a">>}
    /\ dataset[<<"train", "b">>] # <<>>
    /\ dataset[<<"val", "a">>] # <<>>

-----------------------------------------------------------------------------
(* scripts/sanitize.py on an export directory *)

\* no trainer has run: empty store, no label file, nothing called
TrainerIdle ==
    /\ versions = <<>>
    /\ manifest = NoFile
    /\ dataset = EmptyDataset
    /\ version_dirs = {}
    /\ checkpoints = {}
    /\ latest = None
    /\ store_dir = TRUE
    /\ strategy_info = None
    /\ result = Returned("init", None)
    /\ peer = NoPeer

\* stems of the images and label files of an export directory
Stems == {"a", "b", "c"}

\* label files of an export: empty, a single blank, one annotation
ExportLabels == {<<>>, <<SP>>, <<"0", NL>>}

\* export directories before any split: some images, some label files
Exports ==
    {[images |-> I, labels |-> L, train |-> {}, val |-> {}] :
        I \in SUBSET Stems,
        L \in UNION {[S -> ExportLabels] : S \in SUBSET Stems}}

\* find_labeled_and_empty_pairs: the label files that have an image, split
\* by whether content.strip() is empty
find_labeled_and_empty_pairs(ed) ==
    LET paired == {n \in DOMAIN ed.labels : n \in ed.images}
    IN  [labeled |-> {n \in paired : Strip(ed.labels[n]) # <<>>},
         empty   |-> {n \in paired : Strip(ed.labels[n]) = <<>>}]

\* the number of empty pairs sanitize_dataset selects for deletion
delete_count(ed, keep_percentage) ==
    LET pairs == find_labeled_and_empty_pairs(ed)
        total_labeled == Cardinality(pairs.labeled)
        total_empty == Cardinality(pairs.empty)
        target_empty_count == (total_labeled * keep_percentage) \div 100
        keep_count == IF target_empty_count < total_empty
                      THEN target_empty_count ELSE total_empty
    IN  total_empty - keep_count

\* what one pass of the deletion loop does to a selected pair
UnlinkOutcomes == {"deleted", "image_unlink_raises", "label_unlink_raises"}

\* the export directory after the deletion loop: image_file.unlink() comes
\* first, label_file.unlink() is reached only if it did not raise
unlinked(ed, selected, outcome) ==
    [ed EXCEPT
       !.images = @ \ {n \in selected : outcome[n] # "image_unlink_raises"},
       !.labels = [n \in DOMAIN ed.labels \
                          {m \in selected : outcome[m] = "deleted"}
                   |-> ed.labels[n]]]

\* sanitize_dataset(export_dir, keep_percentage, random_seed): the seeded
\* shuffle picks the set selected among the empty pairs
sanitize_dataset(keep_percentage, selected, outcome) ==
    /\ selected \subseteq find_labeled_and_empty_pairs(export_dir).empty
    /\ Cardinality(selected) = delete_count(export_dir, keep_percentage)
    /\ outcome \in [selected -> UnlinkOutcomes]
    /\ export_dir' = unlinked(export_dir, selected, outcome)
    /\ result' = Returned("sanitize_dataset", None)
    /\ UNCHANGED <<trainer, pipeline, gcs>>

\* the keep percentages tried; the last one is out of range
KeepPercentages == {0, 50, 100, 150}

\* main of sanitize.py on an export directory that exists
sanitize_main(dry_run, keep_percentage, response, selected, outcome) ==
    /\ IF keep_percentage < 0 \/ keep_percentage > 100
       THEN /\ selected = {}
            /\ outcome = <<>>
            /\ result' = Returned("sanitize_main", <<"invalid percentage">>)
            /\ UNCHANGED export_dir
       ELSE IF response # "y"
       THEN /\ selected = {}
            /\ outcome = <<>>
            /\ result' = Returned("sanitize_main", <<"cancelled">>)
            /\ UNCHANGED export_dir
       ELSE /\ selected \subseteq find_labeled_and_empty_pairs(export_dir).empty
            /\ Cardinality(selected) = delete_count(export_dir, keep_percentage)
            /\ outcome \in [selected -> UnlinkOutcomes]
            /\ export_dir' = unlinked(export_dir, selected, outcome)
            /\ result' = Returned("sanitize_main", None)
    /\ UNCHANGED <<trainer, pipeline, gcs>>

SanitizeInit ==
    /\ TrainerIdle
    /\ export_dir \in Exports
    /\ pipeline = NotStarted
    /\ gcs = NoSync

SanitizeNext ==
    \/ \E keep \in KeepPercentages \ {150}, selected \in SUBSET Stems :
          \E outcome \in [selected -> UnlinkOutcomes] :
             sanitize_dataset(keep, selected, outcome)
    \/ \E dry_run \in BOOLEAN, keep \in KeepPercentages,
          response \in {"y", "n"}, selected \in SUBSET Stems :
          \E outcome \in [selected -> UnlinkOutcomes] :
             sanitize_main(dry_run, keep, response, selected, outcome)

SanitizeSpec == SanitizeInit /\ [][SanitizeNext]_vars

\* C21: sanitize.py run with --dry-run deletes no image file and no label
\* file, for every export directory and keep percentage.
C21_DryRunDeletesNothing ==
    [][result'.op = "sanitize_main" =>
         \A keep \in KeepPercentages, response \in {"y", "n"},
            selected \in SUBSET Stems :
            \A outcome \in [selected -> UnlinkOutcomes] :
               sanitize_main(TRUE, keep, response, selected, outcome) =>
                  UNCHANGED export_dir]_vars

\* C29: sanitize_dataset deletes only pairs whose label file is empty: every
\* pair whose label file holds an annotation before the call is still there
\* after it, and every other pair is either still whole or gone as a whole,
\* also when an unlink raises.
C29_DeletesWholeEmptyPairs ==
    [][result'.op = "sanitize_dataset" =>
         LET pairs == find_labeled_and_empty_pairs(export_dir)
         IN  /\ \A n \in pairs.labeled :
                   /\ n \in export_dir'.images
                   /\ n \in DOMAIN export_dir'.labels
                   /\ export_dir'.labels[n] = export_dir.labels[n]
             /\ \A n \in pairs.empty :
                   n \in export_dir'.images <=> n \in DOMAIN export_dir'.labels]_vars

-----------------------------------------------------------------------------
(* scripts/5_split_dataset.py on an export directory *)

\* the images that have a label file
valid_pairs(ed) == {n \in ed.images : n \in DOMAIN ed.labels}

\* train ratios tried, in percent: 0.5 and 0.8
TrainRatios == {50, 80}

\* int(total * train_ratio)
train_count(total, train_ratio) == (total * train_ratio) \div 100

\* split_dataset(export_dir, train_ratio, val_ratio, random_seed): the
\* seeded shuffle puts the set first at the front of the list; the files
\* are copied into train/ and val/, and what those hold already stays
split_dataset(train_ratio, first) ==
    /\ LET pairs == valid_pairs(export_dir)
           total == Cardinality(pairs)
       IN  IF pairs = {}
           THEN /\ first = {}
                /\ result' = Returned("split_dataset", None)
                /\ UNCHANGED export_dir
           ELSE /\ first \subseteq pairs
                /\ Cardinality(first) = train_count(total, train_ratio)
                /\ export_dir' =
                      [export_dir EXCEPT !.train = @ \cup first,
                                         !.val = @ \cup (pairs \ first)]
                /\ result' =
                      Returned("split_dataset",
                               [train_count |-> Cardinality(first),
                                val_count   |-> total - Cardinality(first)])
    /\ UNCHANGED <<trainer, pipeline, gcs>>

\* a newly labelled image is added to the export directory
AddPair(n) ==
    /\ n \notin export_dir.images
    /\ n \notin DOMAIN export_dir.labels
    /\ export_dir' =
          [export_dir EXCEPT
             !.images = @ \cup {n},
             !.labels = [m \in DOMAIN export_dir.labels \cup {n} |->
                           IF m = n THEN <<"0", NL>> ELSE export_dir.labels[m]]]
    /\ UNCHANGED <<trainer, result, pipeline, gcs>>

SplitInit ==
    /\ TrainerIdle
    /\ export_dir \in {ed \in Exports :
                         \A n \in DOMAIN ed.labels : ed.labels[n] = <<"0", NL>>}
    /\ pipeline = NotStarted
    /\ gcs = NoSync

SplitNext ==
    \/ \E train_ratio \in TrainRatios, first \in SUBSET Stems :
          split_dataset(train_ratio, first)
    \/ \E n \in Stems : AddPair(n)

SplitSpec == SplitInit /\ [][SplitNext]_vars

\* C28: after every call of split_dataset on an export directory, whatever
\* calls came before, no image/label basename is in both train and val, and
\* train and val together hold every valid image-label pair.
C28_SplitIsDisjointAndComplete ==
    [][(\E train_ratio \in TrainRatios, first \in SUBSET Stems :
           split_dataset(train_ratio, first)) =>
         /\ export_dir'.train \cap export_dir'.val = {}
         /\ valid_pairs(export_dir') \subseteq
               export_dir'.train \cup export_dir'.val]_vars

-----------------------------------------------------------------------------
(* scripts/sync_gcs.py: GCSSync on data/raw_frames *)

\* the *.png files under the local directory, and what they may hold
Frames == {"f1.png", "f2.png"}
FrameContents == {<<"x">>, <<"y">>}

\* get_file_hash(file_path): the md5 digest of the file's bytes
get_file_hash(content) == <<"md5", content>>

\* load_sync_state(): the mapping in .gcs_sync_state.json, {} without the file
load_sync_state(g) == g.state_file

\* files_to_upload of sync_directory: not in the state, or another hash
files_to_upload(g) ==
    {f \in DOMAIN g.local :
        \/ f \notin DOMAIN load_sync_state(g)
        \/ load_sync_state(g)[f] # get_file_hash(g.local[f])}

\* the bucket after upload_from_filename for every file of done
uploaded(g, done) ==
    [f \in DOMAIN g.bucket \cup done |->
        IF f \in done THEN g.local[f] ELSE g.bucket[f]]

\* save_sync_state() with self.sync_state[path] = file_hash for done
save_sync_state(g, done) ==
    [f \in DOMAIN g.state_file \cup done |->
        IF f \in done THEN get_file_hash(g.local[f]) ELSE g.state_file[f]]

\* GCSSync(config).sync_directory("data/raw_frames") in a new process:
\* the uploads of done complete; with completes = FALSE the next
\* upload_from_filename raises and the call ends without save_sync_state()
sync_directory(done, completes) ==
    /\ LET todo == files_to_upload(gcs)
       IN  IF todo = {}
           THEN /\ done = {}
                /\ completes
                /\ result' = Returned("sync_directory", [uploads |-> {}])
                /\ UNCHANGED gcs
           ELSE /\ done \subseteq todo
                /\ completes <=> done = todo
                /\ gcs' = [gcs EXCEPT
                             !.bucket = uploaded(gcs, done),
                             !.state_file = IF completes
                                            THEN save_sync_state(gcs, done)
                                            ELSE @]
                /\ result' = IF completes
                             THEN Returned("sync_directory", [uploads |-> done])
                             ELSE Raised("sync_directory", "upload failed")
    /\ UNCHANGED <<trainer, export_dir, pipeline>>

\* a frame is extracted or overwritten in data/raw_frames
WriteFrame(f, content) ==
    /\ IF f \in DOMAIN gcs.local THEN gcs.local[f] # content ELSE TRUE
    /\ gcs' = [gcs EXCEPT
                 !.local = [h \in DOMAIN gcs.local \cup {f} |->
                              IF h = f THEN content ELSE gcs.local[h]]]
    /\ UNCHANGED <<trainer, result, export_dir, pipeline>>

SyncInit ==
    /\ TrainerIdle
    /\ export_dir = NoExport
    /\ pipeline = NotStarted
    /\ gcs = NoSync

SyncNext ==
    \/ \E done \in SUBSET Frames, completes \in BOOLEAN :
          sync_directory(done, completes)
    \/ \E f \in Frames, content \in FrameContents : WriteFrame(f, content)

SyncSpec == SyncInit /\ [][SyncNext]_vars

\* C30: a call of sync_directory records in the persisted sync state only
\* files it uploaded, with the hash of the uploaded content; every file
\* whose upload completed is in the persisted state with that hash when the
\* call ends, also when a later upload of the call fails; so a repeated
\* sync over the unchanged files finds none of them to upload.
C30_PersistedStateIsWhatWasUploaded ==
    [][\A done \in SUBSET Frames, completes \in BOOLEAN :
          sync_directory(done, completes) =>
             /\ \A f \in DOMAIN gcs'.state_file :
                   (f \notin DOMAIN gcs.state_file
                      \/ gcs.state_file[f] # gcs'.state_file[f]) =>
                   /\ f \in done
                   /\ gcs'.state_file[f] = get_file_hash(gcs'.bucket[f])
             /\ \A f \in done :
                   /\ f \in DOMAIN gcs'.state_file
                   /\ gcs'.state_file[f] = get_file_hash(gcs.local[f])
             /\ done \cap files_to_upload(gcs') = {}]_vars

-----------------------------------------------------------------------------
(* scripts/pipeline.py: one process per call of main() *)

\* the command-line values tried: --frame-skip N, --train-ratio and
\* --val-ratio in percent inside a one-element tuple, None when not given
FrameSkips == {1, 2}
RatioArgs == {None, <<0>>, <<20>>, <<80>>}

PipelineArgs ==
    [continue_pipeline : BOOLEAN, frame_skip : FrameSkips,
     randomize : BOOLEAN, flat : BOOLEAN, keep_existing : BOOLEAN,
     train_ratio : RatioArgs, val_ratio : RatioArgs]

\* str(args.frame_skip), str(args.train_ratio), str(args.val_ratio)
str_int(n) == IF n = 1 THEN "1" ELSE "2"
str_float(r) == IF r = <<0>> THEN "0.0" ELSE IF r = <<20>> THEN "0.2" ELSE "0.8"

\* `if args.train_ratio:` : None and 0.0 are false
given(r) == r # None /\ r # <<0>>

\* cmd.extend / cmd.append under a condition
opt(cond, words) == IF cond THEN words ELSE <<>>

\* the commands of run_full_pipeline, in the order of its code
full_cmds(args) ==
    << <<"python", "scripts/1_extract_frames.py">>
          \o opt(args.frame_skip > 1, <<"--frame-skip", str_int(args.frame_skip)>>)
          \o opt(args.randomize, <<"--randomize">>),
       <<"python", "scripts/2_upload_to_gcs.py">>
          \o opt(args.flat, <<"--flat">>),
       <<"python", "scripts/3_import_to_labelstudio.py">>
          \o opt(args.keep_existing, <<"--keep-existing">>) >>

\* the commands of continue_pipeline, in the order of its code
continue_cmds(args) ==
    << <<"python", "scripts/4_export_annotations.py">>,
       <<"python", "scripts/5_split_dataset.py">>
          \o opt(given(args.train_ratio), <<"--train-ratio", str_float(args.train_ratio)>>)
          \o opt(given(args.val_ratio), <<"--val-ratio", str_float(args.val_ratio)>>),
       <<"python", "scripts/6_train_model.py", "train">> >>

cmds(p) == IF p.mode = "continue" THEN continue_cmds(p.args) ELSE full_cmds(p.args)

\* exit codes a step may return
ReturnCodes == {0, 1, 2}

\* a run_command whose return value is not tested
after_step_ignoring(returncode, last) ==
    IF last THEN "exit 0" ELSE "running"

\* where the process is after run_command returned: `return False` up to
\* sys.exit(1) on a non-zero exit code, the end of main() after the last step
after_step(returncode, last) ==
    IF returncode # 0 THEN "exit 1"
    ELSE IF last THEN "exit 0" ELSE "running"

\* main() up to the first run_command: parse_args, the choice of the mode,
\* and check_prerequisites() in run_full_pipeline
pipeline_main(args, prerequisites) ==
    /\ pipeline.status # "running"
    /\ pipeline' =
          [status  |-> IF ~args.continue_pipeline /\ ~prerequisites
                       THEN "exit 1" ELSE "running",
           mode    |-> IF args.continue_pipeline THEN "continue" ELSE "full",
           args    |-> args,
           started |-> <<>>]
    /\ UNCHANGED <<trainer, result, export_dir, gcs>>

\* the next run_command(cmd, description) of the running process, and the
\* code of main() that follows its return value
run_command(returncode) ==
    /\ pipeline.status = "running"
    /\ LET i == Len(pipeline.started) + 1
       IN  /\ i <= Len(cmds(pipeline))
           /\ pipeline' =
                 [pipeline EXCEPT
                    !.started = Append(@, [cmd |-> cmds(pipeline)[i],
                                           returncode |-> returncode]),
                    !.status = after_step(returncode, i = Len(cmds(pipeline)))]
    /\ UNCHANGED <<trainer, result, export_dir, gcs>>

PipelineInit ==
    /\ TrainerIdle
    /\ export_dir = NoExport
    /\ pipeline = NotStarted
    /\ gcs = NoSync

PipelineNext ==
    \/ \E args \in PipelineArgs, prerequisites \in BOOLEAN :
          pipeline_main(args, prerequisites)
    \/ \E returncode \in ReturnCodes : run_command(returncode)

PipelineSpec == PipelineInit /\ [][PipelineNext]_vars

\* the scripts of the two modes in their fixed order
StepOrder(mode) ==
    IF mode = "continue"
    THEN <<"scripts/4_export_annotations.py", "scripts/5_split_dataset.py",
           "scripts/6_train_model.py">>
    ELSE <<"scripts/1_extract_frames.py", "scripts/2_upload_to_gcs.py",
           "scripts/3_import_to_labelstudio.py">>

\* C27: pipeline.py runs its steps in a fixed order (extract, upload, import
\* in run_full_pipeline; export, split, train in continue_pipeline): a step
\* is started only after every earlier step returned exit code 0, after the
\* first failing step no later step is started, and the process then exits
\* with status 1.
C27_FixedOrderFailFast ==
    /\ [](/\ Len(pipeline.started) <= 3
          /\ \A i \in 1..Len(pipeline.started) :
                /\ pipeline.started[i].cmd[2] = StepOrder(pipeline.mode)[i]
                /\ i < Len(pipeline.started) => pipeline.started[i].returncode = 0
                /\ pipeline.started[i].returncode # 0 => pipeline.status = "exit 1"
          /\ pipeline.status = "exit 0" =>
                /\ Len(pipeline.started) = 3
                /\ \A i \in 1..3 : pipeline.started[i].returncode = 0)
    /\ [][Len(pipeline'.started) > Len(pipeline.started) =>
             /\ pipeline.status = "running"
             /\ \A i \in 1..Len(pipeline.started) :
                   pipeline.started[i].returncode = 0
             /\ Last(pipeline'.started).returncode # 0 =>
                   pipeline'.status = "exit 1"]_vars

\* the second step of --continue returned 2 after the first returned 0
C27_Witness ==
    /\ pipeline.status = "exit 1"
    /\ pipeline.mode = "continue"
    /\ Len(pipeline.started) = 2
    /\ pipeline.started[1].returncode = 0
    /\ pipeline.started[2].returncode = 2
    /\ pipeline.started[2].cmd =
          <<"python", "scripts/5_split_dataset.py", "--train-ratio", "0.8">>

=============================================================================
